---------------------------- MODULE Spec2Model ----------------------------
(***************************************************************************)
(* Model of the cat collector views (src/main_app/views.py): the request   *)
(* handlers over the relational store (User, Cat, Toy, Feeding, Photo and  *)
(* the Cat-Toy join table), the sessions and the object-storage bucket.    *)
(* One action per view; every action records the request it served and    *)
(* the response it gave.                                                   *)
(***************************************************************************)
EXTENDS Integers, Sequences, FiniteSets, Bags, TLC

(* ------------------------------ bounds -------------------------------- *)
\* Rows ever inserted per table (ids are auto-incremented, never reused).
MaxCats == 2
MaxToys == 2
MaxFeedings == 2
MaxPhotos == 1

(* ------------------------------ inputs -------------------------------- *)
Anonymous == "anonymous"
Clients == {"c1", "c2"}
Usernames == {"ann", "bob"}
CatIds == 1..MaxCats
ToyIds == 1..MaxToys

\* POST data of the sign-up form.
SignupForms ==
    {[username |-> u, password1 |-> "s3cretpw", password2 |-> "s3cretpw"] : u \in Usernames}
      \cup {[username |-> "ann", password1 |-> "s3cretpw", password2 |-> "other"],
            [username |-> "bob", password1 |-> "1", password2 |-> "1"],
            [username |-> "", password1 |-> "s3cretpw", password2 |-> "s3cretpw"]}

\* POST data of the cat forms; age travels as text.
CatNames == {"Fig", "Kiwi"}
CatCreateForms ==
    {[name |-> n, breed |-> "Tabby", description |-> "orange", age |-> a] :
        n \in CatNames, a \in {"3", "x"}}
CatUpdateForms ==
    {[breed |-> "Manx", description |-> "grey", age |-> a] : a \in {"4", "x"}}

ToyForms == {[name |-> "ball", color |-> "red"], [name |-> "", color |-> "red"]}

VARIABLES
    users,        \* User table: set of usernames
    session,      \* per client: the authenticated user, or Anonymous
    cats,         \* Cat table: set of rows [id, user, name, breed, description, age]
    next_cat_id,
    toys,         \* Toy table: set of rows [id, name, color]
    next_toy_id,
    cat_toys,     \* Cat-Toy join table: bag of rows <<cat_id, toy_id>>
    feedings,     \* Feeding table: set of rows [id, cat_id, date, meal]
    next_feeding_id,
    photos,       \* Photo table: set of rows [id, url, cat_id]
    next_photo_id,
    bucket_objs,  \* keys stored in the object-storage bucket
    environ,      \* os.environ: the configured S3 settings
    request,      \* the request served last
    response,     \* the response given to it
    changed       \* whether serving it changed a row of the store

db == <<users, cats, next_cat_id, toys, next_toy_id, cat_toys,
        feedings, next_feeding_id, photos, next_photo_id>>
vars == <<users, session, cats, next_cat_id, toys, next_toy_id, cat_toys,
          feedings, next_feeding_id, photos, next_photo_id, bucket_objs,
          environ, request, response, changed>>

(* ----------------------------- responses ------------------------------ *)
NoCtx == [cats |-> {}, toys |-> {}, error_message |-> ""]

Render(template, ctx) ==
    [status |-> "render", to |-> template, exc |-> "", ctx |-> ctx, s3_calls |-> 0]
Redirect(to) ==
    [status |-> "redirect", to |-> to, exc |-> "", ctx |-> NoCtx, s3_calls |-> 0]
Raise(exc) ==
    [status |-> "error", to |-> "", exc |-> exc, ctx |-> NoCtx, s3_calls |-> 0]

Req(view, client, cat_id, toy_id, data) ==
    [view |-> view, client |-> client, user |-> session[client],
     cat_id |-> cat_id, toy_id |-> toy_id, data |-> data]

\* @login_required / LoginRequiredMixin: an anonymous request is sent to the
\* login page and the view body does not run.
LoginRedirect == Redirect("login")

(* ------------------------------- Init --------------------------------- *)
Environs ==
    { [S3_BUCKET |-> <<"b", "k", "t">>, S3_BASE_URL |-> <<"h", ":", "/">>],
      [S3_BASE_URL |-> <<"h", ":", "/">>],
      [S3_BUCKET |-> <<"b", "k", "t">>] }

Init ==
    /\ users = {}
    /\ session = [c \in Clients |-> Anonymous]
    /\ cats = {}
    /\ next_cat_id = 1
    /\ toys = {}
    /\ next_toy_id = 1
    /\ cat_toys = EmptyBag
    /\ feedings = {}
    /\ next_feeding_id = 1
    /\ photos = {}
    /\ next_photo_id = 1
    /\ bucket_objs = {}
    /\ environ \in Environs
    /\ request = [view |-> "none", client |-> "c1", user |-> Anonymous,
                  cat_id |-> 0, toy_id |-> 0, data |-> <<>>]
    /\ response = Render("home.html", NoCtx)
    /\ changed = FALSE

(* ------------------------------ sign-up ------------------------------- *)
\* UserCreationForm.is_valid(): a username that is present and not taken, two
\* equal passwords, and a password the validators accept.
PasswordAccepted(p) == p \in {"s3cretpw"}

UserCreationFormValid(f) ==
    /\ f.username # ""
    /\ f.username \notin users
    /\ f.password1 = f.password2
    /\ PasswordAccepted(f.password1)

\* if form.is_valid(): the branch that saves the user and logs in
SignupFormIsValid_Unchecked(f) == TRUE
SignupFormIsValid(f) == UserCreationFormValid(f)

signup_get(client) ==
    /\ request' = Req("signup", client, 0, 0, [method |-> "GET"])
    /\ response' = Render("registration/signup.html", [NoCtx EXCEPT !.error_message = ""])
    /\ UNCHANGED <<db, session, bucket_objs, environ>>
    /\ changed' = (db' # db)

signup_post(client, f) ==
    /\ request' = Req("signup", client, 0, 0, [method |-> "POST", form |-> f])
    /\ IF SignupFormIsValid(f)
         THEN /\ users' = users \cup {f.username}
              /\ session' = [session EXCEPT ![client] = f.username]
              /\ response' = Redirect("index")
         ELSE /\ response' = Render("registration/signup.html",
                                   [NoCtx EXCEPT !.error_message = "Invalid sign up - try again"])
              /\ UNCHANGED <<users, session>>
    /\ UNCHANGED <<cats, next_cat_id, toys, next_toy_id, cat_toys, feedings,
                   next_feeding_id, photos, next_photo_id, bucket_objs, environ>>
    /\ changed' = (db' # db)

signup ==
    \/ \E client \in Clients : signup_get(client)
    \/ \E client \in Clients, f \in SignupForms : signup_post(client, f)


(* -------------------------------- cats -------------------------------- *)
CatIdsOf(rows) == {r.id : r \in rows}
CatById(cat_id) == CHOOSE c \in cats : c.id = cat_id

\* The store's foreign keys: a row may refer only to a Cat, or a Toy, that exists.
CatForeignKeyHolds(cat_id) == cat_id \in CatIdsOf(cats)
ToyForeignKeyHolds(toy_id) == toy_id \in {t.id : t \in toys}

\* Text of a form field to integer, as the form's IntegerField cleans it.
IsNumeric(s) == s \in {"0", "1", "2", "3", "4"}
ToInt(s) == CASE s = "0" -> 0 [] s = "1" -> 1 [] s = "2" -> 2 [] s = "3" -> 3 [] s = "4" -> 4

CatCreateFormValid(f) == f.name # "" /\ f.breed # "" /\ f.description # "" /\ IsNumeric(f.age)
CatUpdateFormValid(f) == f.breed # "" /\ f.description # "" /\ IsNumeric(f.age)

\* Cat.objects.filter(user=request.user)
CatsOfUser_AllCats(u) == cats
CatsOfUser(u) == {c \in cats : c.user = u}

cats_index(client) ==
    /\ request' = Req("cats_index", client, 0, 0, <<>>)
    /\ response' = IF session[client] = Anonymous THEN LoginRedirect
                   ELSE Render("cats/index.html",
                               [NoCtx EXCEPT !.cats = CatsOfUser(session[client])])
    /\ UNCHANGED <<db, session, bucket_objs, environ>>
    /\ changed' = (db' # db)

\* The owner CatCreate.form_valid attaches to the new cat.
FormInstanceUser(client) == session[client]

CatCreate(client, f) ==
    /\ request' = Req("CatCreate", client, 0, 0, f)
    /\ IF session[client] = Anonymous
         THEN response' = LoginRedirect /\ UNCHANGED <<cats, next_cat_id>>
         ELSE IF ~CatCreateFormValid(f)
         THEN /\ response' = Render("main_app/cat_form.html",
                                    [NoCtx EXCEPT !.error_message = "ValidationError"])
              /\ UNCHANGED <<cats, next_cat_id>>
         ELSE /\ next_cat_id <= MaxCats
              /\ cats' = cats \cup {[id |-> next_cat_id, user |-> FormInstanceUser(client),
                                     name |-> f.name, breed |-> f.breed,
                                     description |-> f.description, age |-> ToInt(f.age)]}
              /\ next_cat_id' = next_cat_id + 1
              /\ response' = Redirect("detail")
    /\ UNCHANGED <<users, session, toys, next_toy_id, cat_toys, feedings,
                   next_feeding_id, photos, next_photo_id, bucket_objs, environ>>
    /\ changed' = (db' # db)

CatUpdate(client, cat_id, f) ==
    /\ request' = Req("CatUpdate", client, cat_id, 0, f)
    /\ IF session[client] = Anonymous
         THEN response' = LoginRedirect /\ UNCHANGED cats
         ELSE IF cat_id \notin CatIdsOf(cats)
         THEN response' = Raise("Http404") /\ UNCHANGED cats
         ELSE IF ~CatUpdateFormValid(f)
         THEN /\ response' = Render("main_app/cat_form.html",
                                    [NoCtx EXCEPT !.error_message = "ValidationError"])
              /\ UNCHANGED cats
         ELSE /\ cats' = (cats \ {CatById(cat_id)}) \cup
                            {[CatById(cat_id) EXCEPT !.breed = f.breed,
                                                      !.description = f.description,
                                                      !.age = ToInt(f.age)]}
              /\ response' = Redirect("detail")
    /\ UNCHANGED <<users, session, next_cat_id, toys, next_toy_id, cat_toys, feedings,
                   next_feeding_id, photos, next_photo_id, bucket_objs, environ>>
    /\ changed' = (db' # db)

\* on_delete=CASCADE of Feeding.cat and Photo.cat, and the join table's rows of
\* a deleted Cat or Toy (the deletion collector removes them with the row).
CascadeFeedings(cat_id) == {f \in feedings : f.cat_id # cat_id}
CascadePhotos(cat_id) == {p \in photos : p.cat_id # cat_id}
JoinRows(rows) == [r \in rows |-> cat_toys[r]]
CascadeCatToys(cat_id) == JoinRows({r \in BagToSet(cat_toys) : r[1] # cat_id})
CascadeToyCats(toy_id) == JoinRows({r \in BagToSet(cat_toys) : r[2] # toy_id})

\* DeleteView.delete on an existing Cat: self.object.delete().
DeleteCatObject_RowOnly(cat_id) ==
    /\ cats' = {c \in cats : c.id # cat_id}
    /\ UNCHANGED <<feedings, photos, cat_toys>>
DeleteCatObject_KeepPhotos(cat_id) ==
    /\ cats' = {c \in cats : c.id # cat_id}
    /\ feedings' = CascadeFeedings(cat_id)
    /\ cat_toys' = CascadeCatToys(cat_id)
    /\ UNCHANGED photos
DeleteCatObject(cat_id) ==
    /\ cats' = {c \in cats : c.id # cat_id}
    /\ feedings' = CascadeFeedings(cat_id)
    /\ photos' = CascadePhotos(cat_id)
    /\ cat_toys' = CascadeCatToys(cat_id)

CatDelete(client, cat_id) ==
    /\ request' = Req("CatDelete", client, cat_id, 0, <<>>)
    /\ IF session[client] = Anonymous
         THEN response' = LoginRedirect /\ UNCHANGED <<cats, feedings, photos, cat_toys>>
         ELSE IF cat_id \notin CatIdsOf(cats)
         THEN response' = Raise("Http404") /\ UNCHANGED <<cats, feedings, photos, cat_toys>>
         ELSE /\ DeleteCatObject(cat_id)
              /\ response' = Redirect("/cats/")
    /\ UNCHANGED <<users, session, next_cat_id, toys, next_toy_id,
                   next_feeding_id, next_photo_id, bucket_objs, environ>>
    /\ changed' = (db' # db)

(* -------------------------------- toys -------------------------------- *)
ToyIdsOf(rows) == {r.id : r \in rows}
ToyById(toy_id) == CHOOSE t \in toys : t.id = toy_id
ToyFormValid(f) == f.name # "" /\ f.color # ""

ToyList(client) ==
    /\ request' = Req("ToyList", client, 0, 0, <<>>)
    /\ response' = IF session[client] = Anonymous THEN LoginRedirect
                   ELSE Render("main_app/toy_list.html", [NoCtx EXCEPT !.toys = toys])
    /\ UNCHANGED <<db, session, bucket_objs, environ>>
    /\ changed' = (db' # db)

ToyDetail(client, toy_id) ==
    /\ request' = Req("ToyDetail", client, 0, toy_id, <<>>)
    /\ response' = IF session[client] = Anonymous THEN LoginRedirect
                   ELSE IF toy_id \notin ToyIdsOf(toys) THEN Raise("Http404")
                   ELSE Render("main_app/toy_detail.html",
                               [NoCtx EXCEPT !.toys = {ToyById(toy_id)}])
    /\ UNCHANGED <<db, session, bucket_objs, environ>>
    /\ changed' = (db' # db)

ToyCreate(client, f) ==
    /\ request' = Req("ToyCreate", client, 0, 0, f)
    /\ IF session[client] = Anonymous
         THEN response' = LoginRedirect /\ UNCHANGED <<toys, next_toy_id>>
         ELSE IF ~ToyFormValid(f)
         THEN /\ response' = Render("main_app/toy_form.html",
                                    [NoCtx EXCEPT !.error_message = "ValidationError"])
              /\ UNCHANGED <<toys, next_toy_id>>
         ELSE /\ next_toy_id <= MaxToys
              /\ toys' = toys \cup {[id |-> next_toy_id, name |-> f.name, color |-> f.color]}
              /\ next_toy_id' = next_toy_id + 1
              /\ response' = Redirect("toys_detail")
    /\ UNCHANGED <<users, session, cats, next_cat_id, cat_toys, feedings,
                   next_feeding_id, photos, next_photo_id, bucket_objs, environ>>
    /\ changed' = (db' # db)

ToyUpdate(client, toy_id, f) ==
    /\ request' = Req("ToyUpdate", client, 0, toy_id, f)
    /\ IF session[client] = Anonymous
         THEN response' = LoginRedirect /\ UNCHANGED toys
         ELSE IF toy_id \notin ToyIdsOf(toys)
         THEN response' = Raise("Http404") /\ UNCHANGED toys
         ELSE IF ~ToyFormValid(f)
         THEN /\ response' = Render("main_app/toy_form.html",
                                    [NoCtx EXCEPT !.error_message = "ValidationError"])
              /\ UNCHANGED toys
         ELSE /\ toys' = (toys \ {ToyById(toy_id)}) \cup
                            {[ToyById(toy_id) EXCEPT !.name = f.name, !.color = f.color]}
              /\ response' = Redirect("toys_detail")
    /\ UNCHANGED <<users, session, cats, next_cat_id, next_toy_id, cat_toys, feedings,
                   next_feeding_id, photos, next_photo_id, bucket_objs, environ>>
    /\ changed' = (db' # db)

ToyDelete(client, toy_id) ==
    /\ request' = Req("ToyDelete", client, 0, toy_id, <<>>)
    /\ IF session[client] = Anonymous
         THEN response' = LoginRedirect /\ UNCHANGED <<toys, cat_toys>>
         ELSE IF toy_id \notin ToyIdsOf(toys)
         THEN response' = Raise("Http404") /\ UNCHANGED <<toys, cat_toys>>
         ELSE /\ toys' = {t \in toys : t.id # toy_id}
              /\ cat_toys' = CascadeToyCats(toy_id)
              /\ response' = Redirect("/toys/")
    /\ UNCHANGED <<users, session, cats, next_cat_id, next_toy_id, feedings,
                   next_feeding_id, photos, next_photo_id, bucket_objs, environ>>
    /\ changed' = (db' # db)

(* ----------------------- cat detail, cat-toy links -------------------- *)
\* cat.toys.all(): the Toy rows joined to the cat through the join table.
CatToysAll(cat_id) == {t \in toys : BagIn(<<cat_id, t.id>>, cat_toys)}
\* .values_list('id')
ValuesListId(rows) == {r.id : r \in rows}

\* Toy.objects.exclude(id__in = cat.toys.all().values_list('id'))
ToysCatDoesntHave_ByName(cat_id) ==
    {t \in toys : t.name \notin {r.name : r \in CatToysAll(cat_id)}}
ToysCatDoesntHave(cat_id) ==
    {t \in toys : t.id \notin ValuesListId(CatToysAll(cat_id))}

cats_detail(client, cat_id) ==
    /\ request' = Req("cats_detail", client, cat_id, 0, <<>>)
    /\ response' = IF session[client] = Anonymous THEN LoginRedirect
                   ELSE IF cat_id \notin CatIdsOf(cats) THEN Raise("DoesNotExist")
                   ELSE Render("cats/detail.html",
                               [NoCtx EXCEPT !.cats = {CatById(cat_id)},
                                             !.toys = ToysCatDoesntHave(cat_id)])
    /\ UNCHANGED <<db, session, bucket_objs, environ>>
    /\ changed' = (db' # db)

\* cat.toys.add(toy_id): insert the join row unless the pair is already linked.
ToysAdd_NoLookup(cat_id, toy_id) == cat_toys (+) SetToBag({<<cat_id, toy_id>>})
ToysAdd(cat_id, toy_id) ==
    IF BagIn(<<cat_id, toy_id>>, cat_toys) THEN cat_toys
    ELSE cat_toys (+) SetToBag({<<cat_id, toy_id>>})

\* cat.toys.remove(toy_id): delete the join rows of the pair, if any.
ToysRemove_AllOfCat(cat_id, toy_id) == JoinRows({r \in BagToSet(cat_toys) : r[1] # cat_id})
ToysRemove(cat_id, toy_id) == JoinRows(BagToSet(cat_toys) \ {<<cat_id, toy_id>>})

assoc_toy(client, cat_id, toy_id) ==
    /\ request' = Req("assoc_toy", client, cat_id, toy_id, <<>>)
    /\ IF session[client] = Anonymous
         THEN response' = LoginRedirect /\ UNCHANGED cat_toys
         ELSE IF cat_id \notin CatIdsOf(cats)
         THEN response' = Raise("DoesNotExist") /\ UNCHANGED cat_toys
         ELSE IF ~ToyForeignKeyHolds(toy_id)
         THEN response' = Raise("IntegrityError") /\ UNCHANGED cat_toys
         ELSE /\ cat_toys' = ToysAdd(cat_id, toy_id)
              /\ response' = Redirect("detail")
    /\ UNCHANGED <<users, session, cats, next_cat_id, toys, next_toy_id, feedings,
                   next_feeding_id, photos, next_photo_id, bucket_objs, environ>>
    /\ changed' = (db' # db)

unassoc_toy(client, cat_id, toy_id) ==
    /\ request' = Req("unassoc_toy", client, cat_id, toy_id, <<>>)
    /\ IF session[client] = Anonymous
         THEN response' = LoginRedirect /\ UNCHANGED cat_toys
         ELSE IF cat_id \notin CatIdsOf(cats)
         THEN response' = Raise("DoesNotExist") /\ UNCHANGED cat_toys
         ELSE /\ cat_toys' = ToysRemove(cat_id, toy_id)
              /\ response' = Redirect("detail")
    /\ UNCHANGED <<users, session, cats, next_cat_id, toys, next_toy_id, feedings,
                   next_feeding_id, photos, next_photo_id, bucket_objs, environ>>
    /\ changed' = (db' # db)

(* ------------------------------ feedings ------------------------------ *)
Meals == {"B", "L", "D"}
FeedingForms ==
    {[date |-> "2024-01-01", meal |-> "B"],
     [date |-> "", meal |-> "L"],
     [date |-> "2024-01-01", meal |-> "X"],
     [meal |-> "D"]}

\* FeedingForm.is_valid(): both fields present, a date, and a known meal.
FeedingFormValid(f) ==
    /\ {"date", "meal"} \subseteq DOMAIN f
    /\ f.date # ""
    /\ f.meal \in Meals

\* if form.is_valid(): the branch that saves the feeding
FeedingFormIsValid_Unchecked(f) == TRUE
FeedingFormIsValid(f) == FeedingFormValid(f)

add_feeding(client, cat_id, f) ==
    /\ request' = Req("add_feeding", client, cat_id, 0, f)
    /\ IF session[client] = Anonymous
         THEN response' = LoginRedirect /\ UNCHANGED <<feedings, next_feeding_id>>
         ELSE IF ~FeedingFormIsValid(f)
         THEN response' = Redirect("detail") /\ UNCHANGED <<feedings, next_feeding_id>>
         ELSE IF ~CatForeignKeyHolds(cat_id)
         THEN response' = Raise("IntegrityError") /\ UNCHANGED <<feedings, next_feeding_id>>
         ELSE /\ next_feeding_id <= MaxFeedings
              /\ feedings' = feedings \cup
                    {[id |-> next_feeding_id, cat_id |-> cat_id,
                      date |-> IF "date" \in DOMAIN f THEN f.date ELSE "",
                      meal |-> IF "meal" \in DOMAIN f THEN f.meal ELSE ""]}
              /\ next_feeding_id' = next_feeding_id + 1
              /\ response' = Redirect("detail")
    /\ UNCHANGED <<users, session, cats, next_cat_id, toys, next_toy_id, cat_toys,
                   photos, next_photo_id, bucket_objs, environ>>
    /\ changed' = (db' # db)

(* ------------------------------- photos ------------------------------- *)
\* Uploaded files: name and content length. request.FILES holds at most one,
\* <<>> when the request carries no 'photo-file'.
UploadedFiles ==
    {[name |-> <<"c", ".", "j">>, size |-> 2],
     [name |-> <<"c">>, size |-> 2],
     [name |-> <<"c", ".", "j">>, size |-> 0]}
RequestFiles == {<<>>} \cup {<<f>> : f \in UploadedFiles}

\* if photo_file: None is false; an uploaded file is true when it has a name
\* (File.__bool__ is bool(self.name); the size, File.__len__, is not asked).
\* The request parser keeps no file part without a filename, so every file in
\* request.FILES has one, whatever its content.
Truthy(photo_file) == photo_file # <<>> /\ photo_file[1].name # <<>>

\* uuid.uuid4().hex (shortened to 8 of its 32 characters)
UuidHexes == {<<"a", "1", "b", "2", "c", "3", "d", "4">>,
              <<"0", "f", "0", "f", "0", "f", "e", "e">>}
KeyHexLen == 6

\* str.rfind('.'): the last index (from 0) of '.', or -1
RFindDot(s) ==
    IF \E i \in 1..Len(s) : s[i] = "."
      THEN (CHOOSE i \in 1..Len(s) : s[i] = "." /\ \A j \in (i+1)..Len(s) : s[j] # ".") - 1
      ELSE -1
\* s[k:]
SliceFrom(s, k) ==
    LET from == IF k >= 0 THEN k ELSE IF Len(s) + k >= 0 THEN Len(s) + k ELSE 0
    IN  SubSeq(s, from + 1, Len(s))

StorageKey(hex, name) == SubSeq(hex, 1, KeyHexLen) \o SliceFrom(name, RFindDot(name))
PhotoUrl(bucket, key) == environ.S3_BASE_URL \o bucket \o <<"/">> \o key

\* (the same with the Photo row written before the upload has returned)
UploadAndSave_SaveFirst(cat_id, key, upload_ok) ==
    IF "S3_BUCKET" \notin DOMAIN environ
      THEN /\ response' = Redirect("detail")
           /\ UNCHANGED <<bucket_objs, photos, next_photo_id>>
    ELSE /\ response' = [Redirect("detail") EXCEPT !.s3_calls = 1]
         /\ bucket_objs' = IF upload_ok THEN bucket_objs \cup {key} ELSE bucket_objs
         /\ IF "S3_BASE_URL" \notin DOMAIN environ \/ ~CatForeignKeyHolds(cat_id)
              THEN UNCHANGED <<photos, next_photo_id>>
              ELSE /\ next_photo_id <= MaxPhotos
                   /\ photos' = photos \cup
                         {[id |-> next_photo_id, cat_id |-> cat_id,
                           url |-> PhotoUrl(environ.S3_BUCKET, key)]}
                   /\ next_photo_id' = next_photo_id + 1

\* The try block of add_photo, for a request that carries a file; upload_ok is
\* whether s3.upload_fileobj returns or raises.
UploadAndSave(cat_id, key, upload_ok) ==
    IF "S3_BUCKET" \notin DOMAIN environ
      THEN /\ response' = Redirect("detail")
           /\ UNCHANGED <<bucket_objs, photos, next_photo_id>>
    ELSE IF ~upload_ok
      THEN /\ response' = [Redirect("detail") EXCEPT !.s3_calls = 1]
           /\ UNCHANGED <<bucket_objs, photos, next_photo_id>>
    ELSE /\ response' = [Redirect("detail") EXCEPT !.s3_calls = 1]
         /\ bucket_objs' = bucket_objs \cup {key}
         /\ IF "S3_BASE_URL" \notin DOMAIN environ \/ ~CatForeignKeyHolds(cat_id)
              THEN UNCHANGED <<photos, next_photo_id>>
              ELSE /\ next_photo_id <= MaxPhotos
                   /\ photos' = photos \cup
                         {[id |-> next_photo_id, cat_id |-> cat_id,
                           url |-> PhotoUrl(environ.S3_BUCKET, key)]}
                   /\ next_photo_id' = next_photo_id + 1

add_photo(client, cat_id, files, hex, upload_ok) ==
    /\ request' = Req("add_photo", client, cat_id, 0, files)
    /\ IF session[client] = Anonymous
         THEN response' = LoginRedirect /\ UNCHANGED <<bucket_objs, photos, next_photo_id>>
         ELSE IF ~Truthy(files)
         THEN response' = Redirect("detail") /\ UNCHANGED <<bucket_objs, photos, next_photo_id>>
         ELSE UploadAndSave(cat_id, StorageKey(hex, files[1].name), upload_ok)
    /\ UNCHANGED <<users, session, cats, next_cat_id, toys, next_toy_id, cat_toys,
                   feedings, next_feeding_id, environ>>
    /\ changed' = (db' # db)

(* ----------------------------- static pages --------------------------- *)
home(client) ==
    /\ request' = Req("home", client, 0, 0, <<>>)
    /\ response' = Render("home.html", NoCtx)
    /\ UNCHANGED <<db, session, bucket_objs, environ>>
    /\ changed' = (db' # db)

about(client) ==
    /\ request' = Req("about", client, 0, 0, <<>>)
    /\ response' = Render("about.html", NoCtx)
    /\ UNCHANGED <<db, session, bucket_objs, environ>>
    /\ changed' = (db' # db)

(* --------------------------- specifications --------------------------- *)
Signup == signup
StaticPages == \E client \in Clients : home(client) \/ about(client)
CatsIndex == \E client \in Clients : cats_index(client)
CatsDetail == \E client \in Clients, cat_id \in CatIds : cats_detail(client, cat_id)
CatCreateView == \E client \in Clients, f \in CatCreateForms : CatCreate(client, f)
CatUpdateView ==
    \E client \in Clients, cat_id \in CatIds, f \in CatUpdateForms :
             CatUpdate(client, cat_id, f)
CatDeleteView == \E client \in Clients, cat_id \in CatIds : CatDelete(client, cat_id)
AddFeeding ==
    \E client \in Clients, cat_id \in CatIds, f \in FeedingForms :
             add_feeding(client, cat_id, f)
AddPhoto ==
    \E client \in Clients, cat_id \in CatIds, files \in RequestFiles,
             hex \in UuidHexes, upload_ok \in BOOLEAN :
                add_photo(client, cat_id, files, hex, upload_ok)
AssocToy ==
    \E client \in Clients, cat_id \in CatIds, toy_id \in ToyIds :
             assoc_toy(client, cat_id, toy_id)
UnassocToy ==
    \E client \in Clients, cat_id \in CatIds, toy_id \in ToyIds :
             unassoc_toy(client, cat_id, toy_id)
ToyListView == \E client \in Clients : ToyList(client)
ToyDetailView == \E client \in Clients, toy_id \in ToyIds : ToyDetail(client, toy_id)
ToyCreateView == \E client \in Clients, f \in ToyForms : ToyCreate(client, f)
ToyUpdateView ==
    \E client \in Clients, toy_id \in ToyIds, f \in ToyForms : ToyUpdate(client, toy_id, f)
ToyDeleteView == \E client \in Clients, toy_id \in ToyIds : ToyDelete(client, toy_id)

\* Every view, every client, every input.
Next ==
    \/ Signup \/ StaticPages
    \/ CatsIndex \/ CatsDetail \/ CatCreateView \/ CatUpdateView \/ CatDeleteView
    \/ AddFeeding \/ AddPhoto \/ AssocToy \/ UnassocToy
    \/ ToyListView \/ ToyDetailView \/ ToyCreateView \/ ToyUpdateView \/ ToyDeleteView

Spec == Init /\ [][Next]_vars

(* ----- specifications per group of views, over the inputs they need ----- *)
AnnSignup == [username |-> "ann", password1 |-> "s3cretpw", password2 |-> "s3cretpw"]
Fig == [name |-> "Fig", breed |-> "Tabby", description |-> "orange", age |-> "3"]
FigBadAge == [name |-> "Fig", breed |-> "Tabby", description |-> "orange", age |-> "x"]
Ball == [name |-> "ball", color |-> "red"]
Photo1 == <<[name |-> <<"c", ".", "j">>, size |-> 2]>>
Hex1 == <<"a", "1", "b", "2", "c", "3", "d", "4">>

InitConfigured == Init /\ {"S3_BUCKET", "S3_BASE_URL"} \subseteq DOMAIN environ

\* Accounts and cats: two clients, every sign-up form.
NextAccounts ==
    \/ Signup
    \/ CatsIndex
    \/ \E client \in Clients, f \in {Fig, FigBadAge} : CatCreate(client, f)
    \/ CatUpdateView
    \/ CatDeleteView
SpecAccounts == InitConfigured /\ [][NextAccounts]_vars

\* Toys and the cat-toy links, served to one client; a link is also asked for
\* with an id no toy has.
NextToys ==
    \/ signup_post("c1", AnnSignup)
    \/ CatCreate("c1", Fig)
    \/ \E cat_id \in CatIds : CatDelete("c1", cat_id)
    \/ \E cat_id \in CatIds : cats_detail("c1", cat_id)
    \/ \E cat_id \in CatIds, toy_id \in ToyIds \cup {MaxToys + 1} :
                assoc_toy("c1", cat_id, toy_id)
    \/ \E cat_id \in CatIds, toy_id \in ToyIds : unassoc_toy("c1", cat_id, toy_id)
    \/ \E f \in ToyForms : ToyCreate("c1", f)
    \/ \E toy_id \in ToyIds : ToyDelete("c1", toy_id)
SpecToys == InitConfigured /\ [][NextToys]_vars

\* Cats with their feedings, photos and links to the first toy.
NextRecords ==
    \/ signup_post("c1", AnnSignup)
    \/ CatCreate("c1", Fig)
    \/ \E cat_id \in CatIds : CatDelete("c1", cat_id)
    \/ next_toy_id = 1 /\ ToyCreate("c1", Ball)
    \/ \E cat_id \in CatIds : assoc_toy("c1", cat_id, 1)
    \/ \E cat_id \in CatIds : add_feeding("c1", cat_id, [date |-> "2024-01-01", meal |-> "B"])
    \/ \E cat_id \in CatIds : add_photo("c1", cat_id, Photo1, Hex1, TRUE)
SpecRecords == InitConfigured /\ [][NextRecords]_vars

\* Feedings from every form.
NextFeedings ==
    \/ signup_post("c1", AnnSignup)
    \/ CatCreate("c1", Fig)
    \/ \E cat_id \in CatIds : CatDelete("c1", cat_id)
    \/ \E cat_id \in CatIds, f \in FeedingForms : add_feeding("c1", cat_id, f)
SpecFeedings == InitConfigured /\ [][NextFeedings]_vars

\* Photo uploads under every configuration of the environment.
NextPhotos ==
    \/ signup_post("c1", AnnSignup)
    \/ CatCreate("c1", Fig)
    \/ \E cat_id \in CatIds : CatDelete("c1", cat_id)
    \/ \E cat_id \in CatIds, files \in RequestFiles, hex \in UuidHexes,
                upload_ok \in BOOLEAN : add_photo("c1", cat_id, files, hex, upload_ok)
SpecPhotos == Init /\ [][NextPhotos]_vars

(* ------------------------------- claims ------------------------------- *)
Authenticated(req) == req.user # Anonymous

\* C1: the cats the index lists are exactly the cats the requesting user
\* owns; no cat of another user is listed.
C1_IndexListsOwnCats ==
    (request.view = "cats_index" /\ response.status = "render") =>
        /\ \A c \in response.ctx.cats : c \in cats /\ c.user = request.user
        /\ \A c \in cats : c.user = request.user => c \in response.ctx.cats
        /\ \A u2 \in users \ {request.user} :
              \A c \in cats : c.user = u2 => c \notin response.ctx.cats
C1_Witness ==
    /\ request.view = "cats_index"
    /\ response.ctx.cats # {}
    /\ \E c \in cats : c.user # request.user

\* C2: for every cat, the toys the detail view offers (those the cat does not
\* have) and the toys linked to the cat in the join table share no id, and
\* together their ids are the ids of all toys.
LinkedToyIds(cat_id) == {r[2] : r \in {x \in BagToSet(cat_toys) : x[1] = cat_id}}
C2_ToysPartition ==
    \A c \in cats :
        LET offered == {t.id : t \in ToysCatDoesntHave(c.id)}
        IN  /\ offered \cap LinkedToyIds(c.id) = {}
            /\ offered \cup LinkedToyIds(c.id) = {t.id : t \in toys}
C2_Witness ==
    /\ request.view = "assoc_toy"
    /\ response.exc = "IntegrityError"
    /\ \E c \in cats : LinkedToyIds(c.id) # {} /\ ToysCatDoesntHave(c.id) # {}

\* C3: a served assoc_toy leaves exactly one join row for the pair, and when
\* the pair was already linked it leaves the store as it was.
C3_AssocIdempotent ==
    [][(request'.view = "assoc_toy" /\ response'.status = "redirect"
          /\ response'.to = "detail") =>
            LET pair == <<request'.cat_id, request'.toy_id>>
            IN  /\ CopiesIn(pair, cat_toys') = 1
                /\ BagIn(pair, cat_toys) => db' = db]_vars
C3_Witness ==
    /\ request.view = "assoc_toy"
    /\ response.to = "detail"
    /\ ~changed
    /\ CopiesIn(<<request.cat_id, request.toy_id>>, cat_toys) = 1
    /\ Cardinality(BagToSet(cat_toys)) >= 2

\* C4: unassoc_toy for an existing cat and a toy not linked to it redirects
\* to the detail view without an error and changes nothing.
C4_UnassocAbsentIsNoOp ==
    [][(/\ request'.view = "unassoc_toy"
        /\ Authenticated(request')
        /\ request'.cat_id \in CatIdsOf(cats)
        /\ ~BagIn(<<request'.cat_id, request'.toy_id>>, cat_toys)) =>
            /\ response'.status = "redirect" /\ response'.to = "detail"
            /\ response'.exc = ""
            /\ db' = db /\ session' = session /\ bucket_objs' = bucket_objs]_vars
C4_Witness ==
    /\ request.view = "unassoc_toy"
    /\ response.to = "detail"
    /\ ~changed
    /\ \E r \in BagToSet(cat_toys) : r[1] = request.cat_id

\* C5: deleting an existing cat removes the cat and every feeding, photo and
\* join row of it, and leaves the other cats, their feedings, photos and join
\* rows, and all toys, as they were.
C5_DeleteCascades ==
    [][(/\ request'.view = "CatDelete"
        /\ Authenticated(request')
        /\ request'.cat_id \in CatIdsOf(cats)) =>
            LET id == request'.cat_id
            IN  /\ response'.status = "redirect" /\ response'.to = "/cats/"
                /\ cats' = {c \in cats : c.id # id}
                /\ id \notin CatIdsOf(cats')
                /\ feedings' = {f \in feedings : f.cat_id # id}
                /\ photos' = {p \in photos : p.cat_id # id}
                /\ \A r \in BagToSet(cat_toys) \cup BagToSet(cat_toys') :
                      CopiesIn(r, cat_toys') = IF r[1] = id THEN 0 ELSE CopiesIn(r, cat_toys)
                /\ toys' = toys /\ users' = users]_vars
C5_Witness ==
    /\ request.view = "CatDelete"
    /\ response.to = "/cats/"
    /\ Cardinality(feedings) < next_feeding_id - 1
    /\ feedings # {}
    /\ Cardinality(photos) < next_photo_id - 1
    /\ request.cat_id \notin CatIdsOf(cats)
    /\ cats # {}
    /\ cat_toys # EmptyBag

\* C6: add_feeding with a form that fails validation saves nothing, changes
\* nothing, and redirects to the detail view without an error.
FailsFeedingValidation(f) ==
    \/ "date" \notin DOMAIN f \/ "meal" \notin DOMAIN f
    \/ f.date = "" \/ f.meal \notin {"B", "L", "D"}
C6_InvalidFeedingIsDropped ==
    [][(/\ request'.view = "add_feeding"
        /\ Authenticated(request')
        /\ FailsFeedingValidation(request'.data)) =>
            /\ response'.status = "redirect" /\ response'.to = "detail"
            /\ response'.exc = ""
            /\ db' = db /\ session' = session /\ bucket_objs' = bucket_objs]_vars
C6_Witness ==
    /\ request.view = "add_feeding"
    /\ Authenticated(request)
    /\ "date" \notin DOMAIN request.data
    /\ request.cat_id \in CatIdsOf(cats)
    /\ response.to = "detail"
    /\ ~changed

\* C7: add_photo with no file, or with a file of no content, stores no photo,
\* makes no call to the object storage, changes nothing and redirects to the
\* detail view.
C7_EmptyPhotoIsNoOp ==
    [][(/\ request'.view = "add_photo"
        /\ Authenticated(request')
        /\ (request'.data = <<>> \/ request'.data[1].size = 0)) =>
            /\ response'.status = "redirect" /\ response'.to = "detail"
            /\ response'.s3_calls = 0
            /\ db' = db /\ session' = session /\ bucket_objs' = bucket_objs]_vars

\* C8: a posted sign-up either succeeds (the user is created from valid
\* credentials, the client's session becomes that user's, redirect to the
\* index) or fails (no user, no session, the form again with an error
\* message); a session changes in no other step.
C8_SignupBranches ==
    [][/\ (request'.view = "signup" /\ request'.data.method = "POST") =>
            LET f == request'.data.form
                client == request'.client
            IN  \/ /\ response'.status = "redirect" /\ response'.to = "index"
                   /\ f.username # "" /\ f.username \notin users
                   /\ f.password1 = f.password2
                   /\ users' = users \cup {f.username}
                   /\ session' = [session EXCEPT ![client] = f.username]
                \/ /\ response'.status = "render"
                   /\ response'.to = "registration/signup.html"
                   /\ response'.ctx.error_message # ""
                   /\ users' = users
                   /\ session' = session
       /\ (session' # session \/ users' # users) =>
            (request'.view = "signup" /\ response'.to = "index")]_vars
C8_Witness ==
    /\ request.view = "signup"
    /\ request.data.method = "POST"
    /\ response.to = "index"
    /\ session[request.client] = request.data.form.username
    /\ \E c \in Clients : session[c] \notin {Anonymous, session[request.client]}

\* C9: every feeding and every photo is linked to exactly one cat, and that
\* cat exists.
C9_RecordsHaveACat ==
    /\ \A f \in feedings : Cardinality({c \in cats : c.id = f.cat_id}) = 1
    /\ \A p \in photos : Cardinality({c \in cats : c.id = p.cat_id}) = 1
C9_Witness ==
    /\ feedings # {}
    /\ photos # {}
    /\ request.view = "add_feeding"
    /\ response.exc = "IntegrityError"
    /\ Cardinality(cats) < next_cat_id - 1

\* C10: the url of every photo names a key stored in the bucket, and add_photo
\* always ends in a redirect, whatever failed.
C10_PhotosNameStoredKeys ==
    /\ \A p \in photos :
          /\ {"S3_BUCKET", "S3_BASE_URL"} \subseteq DOMAIN environ
          /\ \E key \in bucket_objs :
                p.url = environ.S3_BASE_URL \o environ.S3_BUCKET \o <<"/">> \o key
    /\ request.view = "add_photo" => response.status = "redirect" /\ response.exc = ""
C10_Witness ==
    /\ request.view = "add_photo"
    /\ response.s3_calls = 1
    /\ ~changed
    /\ photos # {}
    /\ \E key \in bucket_objs :
          \A p \in photos :
             p.url # environ.S3_BASE_URL \o environ.S3_BUCKET \o <<"/">> \o key

=============================================================================
